---------------------------- MODULE Spec2Model ----------------------------
(***************************************************************************)
(* A model of the carbon-scheduler backend:                                *)
(*                                                                         *)
(*   - find_optimal_window (services/carbon_api.py): the sliding-window    *)
(*     scan over a forecast, with its derived savings figures;             *)
(*   - CarbonIntensityService (services/carbon_api.py): the class-level    *)
(*     cache, the shared rate limiter, get_forecast and                    *)
(*     get_current_intensity;                                              *)
(*   - the "round to next half hour" computation inside get_forecast;      *)
(*   - the routes of routers/carbon.py: validation, the call of the        *)
(*     service, and the status code of the response.                       *)
(*                                                                         *)
(* Seven families of behaviours are specified over one set of variables:   *)
(*   SpecWindow  one call of find_optimal_window on a bounded input;       *)
(*   SpecRound   the half-hour rounding for every time of day;             *)
(*   Spec        the service called sequentially (one call at a time, as   *)
(*               the async routes of routers/carbon.py call it: the        *)
(*               blocking service code runs on the event loop);            *)
(*   SpecConc    the service called from several threads, interleaved at   *)
(*               the statements that read or write the shared state;       *)
(*   SpecBurst   as SpecConc, for the calls of one location made at the    *)
(*               same time, with no idle time between them;                *)
(*   SpecLive    Spec with weak fairness of every caller's steps;          *)
(*   SpecRoute   requests handled by the routes, one at a time.            *)
(*                                                                         *)
(* Python floats are modelled by exact rationals <<num, den>>.  On the     *)
(* inputs the model draws (small integer intensities, energy demands that  *)
(* are multiples of 0.5 kWh, durations up to 4 slots) every double         *)
(* operation of find_optimal_window yields the same truncated integers as  *)
(* the exact computation; this does not extend to every input (a duration  *)
(* of 5 slots already gives int(199.99999999999997) = 199 for an exact     *)
(* 200).                                                                   *)
(***************************************************************************)
EXTENDS Integers, Sequences, FiniteSets, TLC

VARIABLES
    \* ---- find_optimal_window: its arguments and its outcome
    forecast,            \* List[CarbonIntensity]
    duration_hours,      \* int
    energy_kwh,          \* float, as a rational <<num, den>>
    window,              \* the OptimalWindow returned, or the error raised
    \* ---- half-hour rounding: datetime.now(timezone.utc) and the outcome
    clock,               \* [hour, minute]
    rounded,             \* the rounded datetime or the error raised
    \* ---- CarbonIntensityService: class-level state
    cache,               \* CarbonIntensityService._cache
    last_request_time,   \* CarbonIntensityService._last_request_time
    \* ---- the environment of the service
    now,                 \* time.time(), whole seconds since the epoch
    netCalls,            \* number of requests.get calls issued so far
    callLog,             \* history: one record per requests.get issued
    passLog,             \* history: the value stamped by each _rate_limit pass
    \* ---- the callers of the service
    pc,                  \* per caller: where it is inside the service method
    req,                 \* per caller: the call it is making
    ret,                 \* per caller: the outcome of its last finished call
    started,             \* number of service calls started so far
    ticks,               \* number of idle clock advances so far
    \* ---- the routes of routers/carbon.py
    http,                \* the request being handled, then its response
    lists                \* the forecast list each network payload parsed to

windowVars  == <<forecast, duration_hours, energy_kwh, window>>
roundVars   == <<clock, rounded>>
serviceVars == <<cache, last_request_time, now, netCalls, callLog, passLog,
                 pc, req, ret, started, ticks>>
routeVars   == <<http, lists>>
vars        == <<windowVars, roundVars, serviceVars, routeVars>>

-----------------------------------------------------------------------------
(***************************************************************************)
(* Bounds of the model.                                                    *)
(***************************************************************************)
MaxLen == 4           \* longest forecast handed to find_optimal_window
MaxDuration == 3      \* longest task duration, in slots
MaxIntensity == 3     \* intensities are 0..MaxIntensity
MaxEnergyHalves == 3  \* energy demands are 0.5, 1.0, ... kWh

-----------------------------------------------------------------------------
(***************************************************************************)
(* Floats as exact rationals <<num, den>>, den > 0.                        *)
(***************************************************************************)
Rat(n, d) == <<n, d>>

RatMul(a, b) == <<a[1] * b[1], a[2] * b[2]>>

RatSub(a, b) == <<a[1] * b[2] - b[1] * a[2], a[2] * b[2]>>

\* a / b for b > 0
RatDiv(a, b) == <<a[1] * b[2], a[2] * b[1]>>

RatLess(a, b) == a[1] * b[2] < b[1] * a[2]

RatPositive(a) == a[1] > 0

\* Mutant of RatInt: math.floor(x), rounding toward minus infinity
RatFloor(a) == a[1] \div a[2]

\* int(x) of a float: truncation toward zero
RatInt(a) == IF a[1] >= 0 THEN a[1] \div a[2] ELSE -((-a[1]) \div a[2])


-----------------------------------------------------------------------------
(***************************************************************************)
(* find_optimal_window (services/carbon_api.py, lines 384-438).            *)
(***************************************************************************)

\* A CarbonIntensity; times are minutes, and slot i of a series built by
\* MkSeries covers the i-th hour, as in the service tests.
CarbonIntensity(from, to, x) == [from_time |-> from, to_time |-> to, intensity |-> x]

MkSeries(xs) == [i \in 1..Len(xs) |-> CarbonIntensity(60 * (i - 1), 60 * i, xs[i])]

\* Mutant of TooShort: the length test is off by one
TooShortOffByOne(f, d) == Len(f) < d - 1

\* if len(forecast) < duration_hours
TooShort(f, d) == Len(f) < d

\* Mutant of NumCandidates: the last candidate is left out (no + 1)
NumCandidatesShort(f, d) == Len(f) - d

\* range(len(forecast) - duration_hours + 1): the number of candidates
NumCandidates(f, d) == Len(f) - d + 1

\* forecast[i:i + duration_hours], i counted from 0
WindowAt(f, i, d) == SubSeq(f, i + 1, i + d)

RECURSIVE SumIntensity(_)
\* sum(slot.intensity for slot in window)
SumIntensity(w) == IF w = <<>> THEN 0 ELSE Head(w).intensity + SumIntensity(Tail(w))

\* Mutant of AvgIntensity: the sum is not divided by the number of slots
AvgIntensityTotal(w) == Rat(SumIntensity(w), 1)

\* sum(...) / len(window)
AvgIntensity(w) == Rat(SumIntensity(w), Len(w))

\* float('inf'), and a finite float
Infinity == [inf |-> TRUE, val |-> Rat(0, 1)]

Finite(x) == [inf |-> FALSE, val |-> x]

\* Mutant of Improves: the comparison is the wrong way round
ImprovesWhenHigher(avg, lowest) == lowest.inf \/ RatLess(lowest.val, avg)

\* Mutant of Improves: an equal mean replaces the best window too (<=)
ImprovesOrTies(avg, lowest) == lowest.inf \/ ~RatLess(lowest.val, avg)

\* Mutant of Improves: lowest_avg_intensity starts at 0, not at infinity
ImprovesFromZero(avg, lowest) ==
    IF lowest.inf THEN RatLess(avg, Rat(0, 1)) ELSE RatLess(avg, lowest.val)

\* if avg_intensity < lowest_avg_intensity
Improves(avg, lowest) == lowest.inf \/ RatLess(avg, lowest.val)

\* Mutant of CarbonSaved: the operands are swapped
CarbonSavedSwapped(carbon_now, carbon_optimal) == RatSub(carbon_optimal, carbon_now)

\* carbon_now - carbon_optimal
CarbonSaved(carbon_now, carbon_optimal) == RatSub(carbon_now, carbon_optimal)

\* carbon_saved * 1000
KgToGrams(x) == RatMul(x, Rat(1000, 1))

\* Mutant of PercentageSaved: the fraction is not multiplied by 100
PercentageSavedFraction(carbon_saved, carbon_now) ==
    IF RatPositive(carbon_now) THEN RatDiv(carbon_saved, carbon_now) ELSE Rat(0, 1)

\* (carbon_saved / carbon_now) * 100 if carbon_now > 0 else 0
PercentageSaved(carbon_saved, carbon_now) ==
    IF RatPositive(carbon_now)
    THEN RatMul(RatDiv(carbon_saved, carbon_now), Rat(100, 1))
    ELSE Rat(0, 1)

\* Mutant of BuildWindow: end_time is taken from the first slot of the window
BuildWindowEndsInFirstSlot(w, avg_intensity, current_intensity, e) ==
    LET carbon_now     == RatMul(Rat(current_intensity, 1), e)
        carbon_optimal == RatMul(avg_intensity, e)
        carbon_saved   == CarbonSaved(carbon_now, carbon_optimal)
        percentage     == PercentageSaved(carbon_saved, carbon_now)
    IN  [status             |-> "ok",
         start_time         |-> w[1].from_time,
         end_time           |-> w[1].to_time,
         avg_intensity      |-> RatInt(avg_intensity),
         carbon_saved_grams |-> RatInt(KgToGrams(carbon_saved)),
         percentage_saved   |-> RatInt(percentage),
         current_intensity  |-> current_intensity]

\* The body of "if avg_intensity < lowest_avg_intensity": the OptimalWindow
BuildWindow(w, avg_intensity, current_intensity, e) ==
    LET carbon_now     == RatMul(Rat(current_intensity, 1), e)
        carbon_optimal == RatMul(avg_intensity, e)
        carbon_saved   == CarbonSaved(carbon_now, carbon_optimal)
        percentage     == PercentageSaved(carbon_saved, carbon_now)
    IN  [status             |-> "ok",
         start_time         |-> w[1].from_time,
         end_time           |-> w[Len(w)].to_time,
         avg_intensity      |-> RatInt(avg_intensity),
         carbon_saved_grams |-> RatInt(KgToGrams(carbon_saved)),
         percentage_saved   |-> RatInt(percentage),
         current_intensity  |-> current_intensity]

\* Mutant of CurrentIntensity: the baseline is the last slot (forecast[-1])
CurrentIntensityLast(f) == f[Len(f)].intensity

\* current_intensity = forecast[0].intensity
CurrentIntensity(f) == f[1].intensity

\* best_window = None
None == [status |-> "None"]

RECURSIVE Scan(_, _, _, _, _)
\* The for loop from index i on; st is (lowest_avg_intensity, best_window)
Scan(f, d, e, i, st) ==
    IF i >= NumCandidates(f, d)
    THEN st
    ELSE LET w   == WindowAt(f, i, d)
             avg == AvgIntensity(w)
         IN  Scan(f, d, e, i + 1,
                  IF Improves(avg, st.lowest)
                  THEN [lowest |-> Finite(avg),
                        best   |-> BuildWindow(w, avg, CurrentIntensity(f), e)]
                  ELSE st)

find_optimal_window(f, d, e) ==
    IF TooShort(f, d)
    THEN [status |-> "ValueError",
          message |-> "Forecast period too short for task duration"]
    ELSE LET st == Scan(f, d, e, 0, [lowest |-> Infinity, best |-> None])
         IN  IF st.best = None
             THEN [status |-> "Exception", message |-> "Could not find optimal window"]
             ELSE st.best

Pending == [status |-> "pending"]

\* The inputs of one call
Intensities == 0..MaxIntensity

Series == UNION {[1..n -> Intensities] : n \in 0..MaxLen}

Durations == 1..MaxDuration

Energies == {Rat(h, 2) : h \in 1..MaxEnergyHalves}

WindowInit ==
    /\ forecast \in {MkSeries(xs) : xs \in Series}
    /\ duration_hours \in Durations
    /\ energy_kwh \in Energies
    /\ window = Pending

\* No call of find_optimal_window is modelled
WindowParked ==
    /\ forecast = <<>>
    /\ duration_hours = 1
    /\ energy_kwh = Rat(1, 1)
    /\ window = Pending

FindOptimalWindow ==
    /\ window = Pending
    /\ window' = find_optimal_window(forecast, duration_hours, energy_kwh)
    /\ UNCHANGED <<forecast, duration_hours, energy_kwh>>
    /\ UNCHANGED <<roundVars, serviceVars, routeVars>>

SpecWindowNext == FindOptimalWindow

-----------------------------------------------------------------------------
(***************************************************************************)
(* "Round to next half hour" in get_forecast (lines 71-77).                *)
(* datetime.replace keeps the date and raises ValueError for an hour       *)
(* outside 0..23.                                                          *)
(***************************************************************************)

\* now.replace(hour=h, minute=m, second=0, microsecond=0)
Replace(t, h, m) ==
    IF h \in 0..23
    THEN [status |-> "ok", hour |-> h, minute |-> m, second |-> 0]
    ELSE [status |-> "ValueError", message |-> "hour must be in 0..23"]

\* if now.minute < 30: ... else: ...
RoundToNextHalfHour(t) ==
    IF t.minute < 30
    THEN Replace(t, t.hour, 30)
    ELSE Replace(t, t.hour + 1, 0)

RoundInit ==
    /\ clock \in [hour : 0..23, minute : 0..59, second : {0, 59}]
    /\ rounded = Pending

\* No rounding is modelled
RoundParked ==
    /\ clock = [hour |-> 0, minute |-> 0, second |-> 0]
    /\ rounded = Pending

RoundNow ==
    /\ rounded = Pending
    /\ rounded' = RoundToNextHalfHour(clock)
    /\ UNCHANGED clock
    /\ UNCHANGED <<windowVars, serviceVars, routeVars>>

SpecRoundNext == RoundNow

-----------------------------------------------------------------------------
(***************************************************************************)
(* CarbonIntensityService (services/carbon_api.py, lines 29-145).          *)
(*                                                                         *)
(* Time is time.time() in whole seconds.  The clock advances while a       *)
(* caller is blocked (in time.sleep, in requests.get) or between calls;    *)
(* the straight-line code between two blocking calls takes no time at      *)
(* this resolution, and the clock never runs backwards.                    *)
(***************************************************************************)
NumCallers == 2       \* threads calling the service
MaxRequests == 2      \* service calls started in one behaviour
MaxTicks == 2         \* idle clock advances in one behaviour

\* _min_request_interval
MinRequestInterval == 2

\* cache_expiry of get_forecast and of get_current_intensity
ForecastExpiry == 15 * 60

CurrentExpiry == 5 * 60

Callers == 1..NumCallers

Postcodes == {"G1", "EH1"}

Hours == {48}

\* The calls a caller can make
ForecastCall(postcode, hours_ahead) ==
    [method |-> "get_forecast", postcode |-> postcode, hours_ahead |-> hours_ahead]

CurrentCall(postcode) ==
    [method |-> "get_current_intensity", postcode |-> postcode, hours_ahead |-> 0]

Calls == {ForecastCall(c, h) : c \in Postcodes, h \in Hours}
             \cup {CurrentCall(c) : c \in Postcodes}

\* cache_key = f"forecast_{hours_ahead}" and f"current_{postcode}"
CacheKey(c) ==
    IF c.method = "get_forecast"
    THEN "forecast_" \o ToString(c.hours_ahead)
    ELSE "current_" \o c.postcode

\* Mutant of CacheExpiry: get_forecast uses the 5-minute expiry as well
CacheExpiryShort(c) == CurrentExpiry

CacheExpiry(c) == IF c.method = "get_forecast" THEN ForecastExpiry ELSE CurrentExpiry

\* if time.time() - cached_time < cache_expiry
Fresh(cached_time, t, expiry) == t - cached_time < expiry

\* if cache_key in _cache: ... if <fresh>: return cached_data
CacheHit(c) ==
    /\ CacheKey(c) \in DOMAIN cache
    /\ Fresh(cache[CacheKey(c)].time, now, CacheExpiry(c))

\* if time_since_last < _min_request_interval
MustWait(time_since_last) == time_since_last < MinRequestInterval

\* Mutant of SleepTime: sleeps for the time already elapsed
SleepTimeElapsed(time_since_last) == time_since_last

\* _min_request_interval - time_since_last, the argument of time.sleep
SleepTime(time_since_last) == MinRequestInterval - time_since_last

\* datetime.now(timezone.utc) for time.time() = t
UtcNow(t) == [hour |-> (t \div 3600) % 24, minute |-> (t \div 60) % 60, second |-> t % 60]

\* Mutant of CacheStore: the map is replaced by one holding the new entry only
CacheStoreAlone(key, payload, t) == [k \in {key} |-> [data |-> payload, time |-> t]]

\* _cache[cache_key] = (payload, time.time())
CacheStore(key, payload, t) ==
    [k \in DOMAIN cache \cup {key} |->
        IF k = key THEN [data |-> payload, time |-> t] ELSE cache[k]]

\* What requests.get and the parsing after it can do
Outcomes == {"ok", "RequestException", "KeyError"}

FailureMessage(c) ==
    IF c.method = "get_forecast"
    THEN "Failed to fetch carbon intensity data"
    ELSE "Failed to fetch current intensity"

NoCall == [method |-> "none", postcode |-> "", hours_ahead |-> 0]

NoReq == [call |-> NoCall, id |-> 0, entry |-> "none", sleep_until |-> 0, passes |-> 0,
          calls |-> 0, payload |-> 0, upstream |-> "none", cache_before |-> <<>>]

NoRet == [call |-> NoCall, id |-> 0, entry |-> "none", calls |-> 0, upstream |-> "none",
          cache_before |-> <<>>,
          status |-> "none", source |-> "none", data |-> 0, message |-> ""]

\* The outcome of the call r: a value from `source`, or an exception;
\* `upstream` records how the requests.get of the call ended, if it made one,
\* `cache_before` the cache map the call found when it was made
Return(r, status, source, data, message) ==
    [call |-> r.call, id |-> r.id, entry |-> r.entry, calls |-> r.calls,
     upstream |-> r.upstream, cache_before |-> r.cache_before,
     status |-> status, source |-> source, data |-> data, message |-> message]

\* Mutant of FetchFailed: a failed fetch falls back to the entry in the cache,
\* or to an empty series
FetchFailedFallsBack(r) ==
    IF CacheKey(r.call) \in DOMAIN cache
    THEN Return(r, "ok", "cache", cache[CacheKey(r.call)].data, "")
    ELSE Return(r, "ok", "default", 0, "")

\* except requests.exceptions.RequestException as e: raise Exception(f"Failed
\* to fetch ...: {str(e)}")
FetchFailed(r) == Return(r, "Exception", "none", 0, FailureMessage(r.call))

\* time.time() when the process starts: midday, and 23:20 UTC
StartTimes == {129600, 170400}

ServiceInit ==
    /\ cache = <<>>
    /\ last_request_time = 0
    /\ now \in StartTimes
    /\ netCalls = 0
    /\ callLog = <<>>
    /\ passLog = <<>>
    /\ pc = [p \in Callers |-> "idle"]
    /\ req = [p \in Callers |-> NoReq]
    /\ ret = [p \in Callers |-> NoRet]
    /\ started = 0
    /\ ticks = 0

\* The service is not modelled
ServiceParked ==
    /\ cache = <<>>
    /\ last_request_time = 0
    /\ now = 0
    /\ netCalls = 0
    /\ callLog = <<>>
    /\ passLog = <<>>
    /\ pc = [p \in Callers |-> "idle"]
    /\ req = [p \in Callers |-> NoReq]
    /\ ret = [p \in Callers |-> NoRet]
    /\ started = 0
    /\ ticks = 0

AllIdle == \A p \in Callers : pc[p] = "idle"

\* Mutant of Call: single flight, a caller waits at the entry while another
\* caller is fetching the same key
CallSingleFlight(p, c) ==
    /\ pc[p] = "idle"
    /\ \A q \in Callers \ {p} :
          pc[q] = "idle" \/ CacheKey(req[q].call) # CacheKey(c)
    /\ started < MaxRequests
    /\ started' = started + 1
    /\ LET key   == CacheKey(c)
           entry == IF key \notin DOMAIN cache THEN "absent"
                    ELSE IF CacheHit(c) THEN "fresh" ELSE "stale"
           r     == [call |-> c, id |-> started + 1, entry |-> entry,
                     sleep_until |-> 0, passes |-> 0, calls |-> 0, payload |-> 0,
                     upstream |-> "none", cache_before |-> cache]
       IN  IF CacheHit(c)
           THEN /\ ret' = [ret EXCEPT ![p] = Return(r, "ok", "cache", cache[key].data, "")]
                /\ UNCHANGED <<pc, req>>
           ELSE /\ pc' = [pc EXCEPT ![p] = "rate_limit"]
                /\ req' = [req EXCEPT ![p] = r]
                /\ UNCHANGED ret
    /\ UNCHANGED <<cache, last_request_time, now, netCalls, callLog, passLog, ticks>>
    /\ UNCHANGED <<windowVars, roundVars>>

\* Mutant of Call: a hit renews the entry (sliding expiry)
CallHitRefreshes(p, c) ==
    /\ pc[p] = "idle"
    /\ started < MaxRequests
    /\ started' = started + 1
    /\ LET key   == CacheKey(c)
           entry == IF key \notin DOMAIN cache THEN "absent"
                    ELSE IF CacheHit(c) THEN "fresh" ELSE "stale"
           r     == [call |-> c, id |-> started + 1, entry |-> entry,
                     sleep_until |-> 0, passes |-> 0, calls |-> 0, payload |-> 0,
                     upstream |-> "none", cache_before |-> cache]
       IN  IF CacheHit(c)
           THEN /\ ret' = [ret EXCEPT ![p] = Return(r, "ok", "cache", cache[key].data, "")]
                /\ cache' = [cache EXCEPT ![key].time = now]
                /\ UNCHANGED <<pc, req>>
           ELSE /\ pc' = [pc EXCEPT ![p] = "rate_limit"]
                /\ req' = [req EXCEPT ![p] = r]
                /\ UNCHANGED <<ret, cache>>
    /\ UNCHANGED <<last_request_time, now, netCalls, callLog, passLog, ticks>>
    /\ UNCHANGED <<windowVars, roundVars>>

\* get_forecast / get_current_intensity, up to the cache check (lines 58-65,
\* 111-118): a fresh entry is returned, anything else goes on to _rate_limit
Call(p, c) ==
    /\ pc[p] = "idle"
    /\ started < MaxRequests
    /\ started' = started + 1
    /\ LET key   == CacheKey(c)
           entry == IF key \notin DOMAIN cache THEN "absent"
                    ELSE IF CacheHit(c) THEN "fresh" ELSE "stale"
           r     == [call |-> c, id |-> started + 1, entry |-> entry,
                     sleep_until |-> 0, passes |-> 0, calls |-> 0, payload |-> 0,
                     upstream |-> "none", cache_before |-> cache]
       IN  IF CacheHit(c)
           THEN /\ ret' = [ret EXCEPT ![p] = Return(r, "ok", "cache", cache[key].data, "")]
                /\ UNCHANGED <<pc, req>>
           ELSE /\ pc' = [pc EXCEPT ![p] = "rate_limit"]
                /\ req' = [req EXCEPT ![p] = r]
                /\ UNCHANGED ret
    /\ UNCHANGED <<cache, last_request_time, now, netCalls, callLog, passLog, ticks>>
    /\ UNCHANGED <<windowVars, roundVars>>

\* _rate_limit, lines 40-42: read the clock and the last request time
RateLimitRead(p) ==
    /\ pc[p] = "rate_limit"
    /\ LET time_since_last == now - last_request_time
       IN  IF MustWait(time_since_last)
           THEN /\ pc' = [pc EXCEPT ![p] = "sleep"]
                /\ req' = [req EXCEPT ![p].sleep_until = now + SleepTime(time_since_last)]
           ELSE /\ pc' = [pc EXCEPT ![p] = "stamp"]
                /\ UNCHANGED req
    /\ UNCHANGED <<cache, last_request_time, now, netCalls, callLog, passLog,
                   ret, started, ticks>>
    /\ UNCHANGED <<windowVars, roundVars, routeVars>>

\* _rate_limit, line 43: time.sleep returns once the time asked for has passed
Sleep(p) ==
    /\ pc[p] = "sleep"
    /\ now' = IF now < req[p].sleep_until THEN req[p].sleep_until ELSE now
    /\ pc' = [pc EXCEPT ![p] = "stamp"]
    /\ UNCHANGED <<cache, last_request_time, netCalls, callLog, passLog,
                   req, ret, started, ticks>>
    /\ UNCHANGED <<windowVars, roundVars, routeVars>>

\* _rate_limit, line 44: _last_request_time = time.time()
Stamp(p) ==
    /\ pc[p] = "stamp"
    /\ last_request_time' = now
    /\ passLog' = Append(passLog, now)
    /\ pc' = [pc EXCEPT ![p] = "request"]
    /\ req' = [req EXCEPT ![p].passes = @ + 1]
    /\ UNCHANGED <<cache, now, netCalls, callLog, ret, started, ticks>>
    /\ UNCHANGED <<windowVars, roundVars, routeVars>>

\* Lines 71-84 and 124-125: get_forecast rounds the time, which can raise;
\* then requests.get is issued
Request(p) ==
    /\ pc[p] = "request"
    /\ LET c == req[p].call
           t == IF c.method = "get_forecast"
                THEN RoundToNextHalfHour(UtcNow(now))
                ELSE [status |-> "ok"]
       IN  IF t.status = "ok"
           THEN /\ netCalls' = netCalls + 1
                /\ callLog' = Append(callLog, [time |-> now, key |-> CacheKey(c),
                                               n |-> netCalls + 1, call |-> c])
                /\ req' = [req EXCEPT ![p].calls = @ + 1, ![p].payload = netCalls + 1]
                /\ pc' = [pc EXCEPT ![p] = "response"]
                /\ UNCHANGED ret
           ELSE /\ ret' = [ret EXCEPT ![p] = Return(req[p], t.status, "none", 0, t.message)]
                /\ pc' = [pc EXCEPT ![p] = "idle"]
                /\ req' = [req EXCEPT ![p] = NoReq]
                /\ UNCHANGED <<netCalls, callLog>>
    /\ UNCHANGED <<cache, last_request_time, now, passLog, started, ticks>>
    /\ UNCHANGED <<windowVars, roundVars, routeVars>>

\* The n-th requests.get returns payload n
Payload(p) == req[p].payload

\* Mutant of ReachesStore: the entry is written however the fetch ended
ReachesStoreAlways(outcome) == TRUE

\* The assignment to _cache (lines 101, 140) is reached only if
\* requests.get, raise_for_status and the parsing raised nothing
ReachesStore(outcome) == outcome = "ok"

\* Mutant of AfterResponse: a failed fetch is tried again in the same call
AfterResponseRetries(outcome) ==
    IF outcome = "RequestException" THEN "rate_limit" ELSE "idle"

\* Mutant of CacheOnFailure: a failed fetch drops the entry of its key
CacheOnFailureEvicts(key) == [k \in DOMAIN cache \ {key} |-> cache[k]]

\* The except clauses (lines 105-106, 144-145) only raise: _cache is not
\* assigned on the way out of a failed fetch
CacheOnFailure(key) == cache

\* Where the method goes once requests.get has ended: it returns (lines 103,
\* 142) or raises (lines 105-106, 144-145); there is no loop around the try
AfterResponse(outcome) == "idle"

\* Lines 84-106 and 125-145: the response arrives; on success the payload is
\* parsed and stored with time.time(); a RequestException is re-raised as
\* Exception; any other exception of the parsing propagates as it is
Respond(p, outcome) ==
    /\ pc[p] = "response"
    /\ LET c == req[p].call
           r == [req[p] EXCEPT !.upstream = outcome]
       IN  /\ cache' = IF ReachesStore(outcome)
                       THEN CacheStore(CacheKey(c), Payload(p), now)
                       ELSE CacheOnFailure(CacheKey(c))
           /\ CASE outcome = "ok" ->
                  ret' = [ret EXCEPT ![p] = Return(r, "ok", "network", Payload(p), "")]
             [] outcome = "RequestException" ->
                  ret' = [ret EXCEPT ![p] = FetchFailed(r)]
             [] OTHER ->
                  ret' = [ret EXCEPT ![p] = Return(r, outcome, "none", 0, "")]
    /\ pc' = [pc EXCEPT ![p] = AfterResponse(outcome)]
    /\ req' = [req EXCEPT ![p] = IF AfterResponse(outcome) = "idle" THEN NoReq ELSE @]
    /\ UNCHANGED <<last_request_time, now, netCalls, callLog, passLog, started, ticks>>
    /\ UNCHANGED <<windowVars, roundVars, routeVars>>

\* How far the clock moves in one idle advance
Delays == {1, CurrentExpiry - 1, ForecastExpiry - 1}

\* Time passes while every caller is idle or blocked
Tick(d) ==
    /\ ticks < MaxTicks
    /\ \A p \in Callers : pc[p] \in {"idle", "sleep", "response"}
    /\ ticks' = ticks + 1
    /\ now' = now + d
    /\ UNCHANGED <<cache, last_request_time, netCalls, callLog, passLog,
                   pc, req, ret, started>>
    /\ UNCHANGED <<windowVars, roundVars, routeVars>>

\* No request has reached the routes
NoBody == [kind |-> "none"]

NoHttp == [state |-> "idle", route |-> "none", postcode |-> "", hours |-> 0,
           task_type |-> "", id |-> 0, core_calls |-> 0,
           status_code |-> 0, detail |-> "", body |-> NoBody]

\* The routes are not modelled
RouteParked ==
    /\ http = NoHttp
    /\ lists = <<>>

\* A call made on the one thread of the event loop: no other call is in progress
SequentialCall(c) == AllIdle /\ Call(1, c) /\ UNCHANGED routeVars

Step(p) ==
    \/ RateLimitRead(p)
    \/ Sleep(p)
    \/ Stamp(p)
    \/ Request(p)
    \/ \E o \in Outcomes : Respond(p, o)

SpecNext ==
    \/ \E c \in Calls : SequentialCall(c)
    \/ \E p \in Callers : Step(p)
    \/ \E d \in Delays : Tick(d)

SpecConcNext ==
    \/ \E p \in Callers, c \in Calls : Call(p, c) /\ UNCHANGED routeVars
    \/ \E p \in Callers : Step(p)
    \/ \E d \in Delays : Tick(d)

\* The calls of the clients of one location
BurstCalls == {c \in Calls : c.postcode = "G1"}

\* Calls for one location made at the same time: no idle time passes between
\* the calls, the clock advances only in time.sleep
SpecBurstNext ==
    \/ \E p \in Callers, c \in BurstCalls : Call(p, c) /\ UNCHANGED routeVars
    \/ \E p \in Callers : Step(p)

-----------------------------------------------------------------------------
(***************************************************************************)
(* The routes (routers/carbon.py).  A request is validated, calls the      *)
(* service on the event loop, one request at a time, and is answered with  *)
(* a status code.                                                          *)
(***************************************************************************)

\* The hours parameter of GET /forecast: the default, the two ends of the
\* allowed range and the values next to them
RouteHours == {0, 1, 48, 96, 97}

\* Mutant of HoursValid: the upper limit is missing
HoursValidNoMax(hours) == hours >= 1

\* hours: int = Query(default=48, ge=1, le=96)
HoursValid(hours) == hours >= 1 /\ hours <= 96

\* A Python number: an int or a float, with its value
PyInt(n) == [type |-> "int", val |-> Rat(n, 1)]

PyFloat(n, d) == [type |-> "float", val |-> Rat(n, d)]

\* Two entries of TASK_PRESETS (lines 151-157 and 193-199)
TASK_PRESETS ==
    [t \in {"washing-machine", "robot-vacuum-home"} |->
        IF t = "washing-machine"
        THEN [duration_hours |-> PyInt(2),      energy_kwh |-> Rat(3, 2)]
        ELSE [duration_hours |-> PyFloat(3, 2), energy_kwh |-> Rat(3, 40)]]

\* The task_type of a POST /optimal-time request
TaskTypes == DOMAIN TASK_PRESETS \cup {"invalid-task"}

\* The item lists under 'data' the provider answers a forecast request with
\* (half-hour slots, times in minutes): three slots in order, one slot, and
\* two slots with the later one first
Item(from, to, x) == [from |-> from, to |-> to, intensity |-> [forecast |-> x]]

ProviderLists ==
    { <<Item(0, 30, 3), Item(30, 60, 1), Item(60, 90, 2)>>,
      <<Item(0, 30, 2)>>,
      <<Item(30, 60, 1), Item(0, 30, 2)>> }

\* for slot in data['data']: forecast.append(CarbonIntensity(...))
ParseForecast(data) ==
    [i \in 1..Len(data) |->
        CarbonIntensity(data[i].from, data[i].to, data[i].intensity.forecast)]

\* find_optimal_window called with a preset's duration_hours, an int or a
\* float: the length test compares numbers, range() takes only an int
find_optimal_window_py(f, d, e) ==
    IF RatLess(Rat(Len(f), 1), d.val)
    THEN [status |-> "ValueError",
          message |-> "Forecast period too short for task duration"]
    ELSE IF d.type = "float"
         THEN [status |-> "TypeError",
               message |-> "'float' object cannot be interpreted as an integer"]
         ELSE find_optimal_window(f, d.val[1], e)

\* The event loop is free to run a route handler
RouteFree == http.state # "waiting" /\ AllIdle

\* The handler has called the service (its call is the next one started)
Waiting(route, postcode, hours, task_type) ==
    [state |-> "waiting", route |-> route, postcode |-> postcode, hours |-> hours,
     task_type |-> task_type, id |-> started + 1, core_calls |-> 1,
     status_code |-> 0, detail |-> "", body |-> NoBody]

\* The request was answered without a call of the service
Rejected(route, postcode, hours, task_type, status_code, detail) ==
    [state |-> "done", route |-> route, postcode |-> postcode, hours |-> hours,
     task_type |-> task_type, id |-> 0, core_calls |-> 0,
     status_code |-> status_code, detail |-> detail, body |-> NoBody]

\* The response of the request h
Answer(h, status_code, detail, body) ==
    [h EXCEPT !.state = "done", !.status_code = status_code, !.detail = detail,
              !.body = body]

\* GET /forecast (lines 47-58): FastAPI validates hours before the handler
\* runs and answers 422 itself; the handler calls get_forecast
GetForecastRoute(postcode, hours) ==
    /\ RouteFree
    /\ IF HoursValid(hours)
       THEN /\ Call(1, ForecastCall(postcode, hours))
            /\ http' = Waiting("forecast", postcode, hours, "")
       ELSE /\ http' = Rejected("forecast", postcode, hours, "", 422, "validation error")
            /\ UNCHANGED <<windowVars, roundVars, serviceVars>>
    /\ UNCHANGED lists

\* GET /current (lines 30-38)
GetCurrentRoute(postcode) ==
    /\ RouteFree
    /\ Call(1, CurrentCall(postcode))
    /\ http' = Waiting("current", postcode, 0, "")
    /\ UNCHANGED lists

\* Mutant of TaskKnown: the task type is not validated
TaskKnownAlways(task_type) == TRUE

\* request.task_type in TASK_PRESETS
TaskKnown(task_type) == task_type \in DOMAIN TASK_PRESETS

\* POST /optimal-time (lines 90-101): an unknown task type is answered 400
\* (the HTTPException passes the handler's except clauses unchanged);
\* otherwise the handler calls get_forecast(postcode, hours_ahead=48)
OptimalTimeRoute(task_type, postcode) ==
    /\ RouteFree
    /\ IF TaskKnown(task_type)
       THEN /\ Call(1, ForecastCall(postcode, 48))
            /\ http' = Waiting("optimal-time", postcode, 48, task_type)
       ELSE /\ http' = Rejected("optimal-time", postcode, 0, task_type,
                                400, "Invalid task type")
            /\ UNCHANGED <<windowVars, roundVars, serviceVars>>
    /\ UNCHANGED lists

\* except Exception as e: raise HTTPException(status_code=500, detail=...)
ErrorDetail(route, message) ==
    IF route = "optimal-time"
    THEN "Error calculating optimal time: " \o message
    ELSE message

\* Lines 104-127: find_optimal_window for the preset of the request, then the
\* response: 200 with the window, or 500 for whatever was raised
OptimalTimeAnswer(h, f) ==
    IF h.task_type \notin DOMAIN TASK_PRESETS
    THEN Answer(h, 500, ErrorDetail(h.route, "KeyError"), NoBody)
    ELSE LET task == TASK_PRESETS[h.task_type]
             optimal_window == find_optimal_window_py(f, task.duration_hours,
                                                      task.energy_kwh)
         IN  IF optimal_window.status = "ok"
             THEN Answer(h, 200, "", [kind |-> "window", optimal_window |-> optimal_window,
                                      forecast_length |-> Len(f)])
             ELSE Answer(h, 500, ErrorDetail(h.route, optimal_window.message), NoBody)

\* The service call of the request has ended: the handler goes on with the
\* value returned, or its except clause answers 500.  The list a forecast
\* payload parsed to is fixed the first time the payload is looked at.
RouteFinish ==
    /\ http.state = "waiting"
    /\ pc[1] = "idle"
    /\ ret[1].id = http.id
    /\ IF ret[1].status # "ok"
       THEN /\ http' = Answer(http, 500, ErrorDetail(http.route, ret[1].message), NoBody)
            /\ UNCHANGED lists
       ELSE IF http.route = "current"
       THEN /\ http' = Answer(http, 200, "", [kind |-> "current", data |-> ret[1].data])
            /\ UNCHANGED lists
       ELSE \E data \in ProviderLists :
              LET f == ParseForecast(data)
                  n == ret[1].data
              IN  /\ n \in DOMAIN lists => lists[n] = f
                  /\ lists' = IF n \in DOMAIN lists THEN lists ELSE lists @@ (n :> f)
                  /\ http' = IF http.route = "forecast"
                             THEN Answer(http, 200, "", [kind |-> "forecast", forecast |-> f])
                             ELSE OptimalTimeAnswer(http, f)
    /\ UNCHANGED <<windowVars, roundVars, serviceVars>>

\* The clients of the routes use one postcode
RoutePostcodes == {"G1"}

SpecRouteNext ==
    \/ \E postcode \in RoutePostcodes, hours \in RouteHours :
          GetForecastRoute(postcode, hours)
    \/ \E postcode \in RoutePostcodes : GetCurrentRoute(postcode)
    \/ \E task_type \in TaskTypes, postcode \in RoutePostcodes :
          OptimalTimeRoute(task_type, postcode)
    \/ Step(1)
    \/ RouteFinish

-----------------------------------------------------------------------------
(***************************************************************************)
(* The specifications.                                                     *)
(***************************************************************************)
SpecWindowInit == WindowInit /\ RoundParked /\ ServiceParked /\ RouteParked

SpecWindow == SpecWindowInit /\ [][SpecWindowNext]_vars

SpecRoundInit == WindowParked /\ RoundInit /\ ServiceParked /\ RouteParked

SpecRound == SpecRoundInit /\ [][SpecRoundNext]_vars

Init == WindowParked /\ RoundParked /\ ServiceInit /\ RouteParked

Next == SpecNext

Spec == Init /\ [][Next]_vars

SpecConc == Init /\ [][SpecConcNext]_vars

SpecBurst == Init /\ [][SpecBurstNext]_vars

SpecRoute == Init /\ [][SpecRouteNext]_vars

\* The clock advances and every requests.get completes or times out
\* (timeout=15): a caller that can take its next step does take it
SpecLive == Spec /\ \A p \in Callers : WF_vars(Step(p))

-----------------------------------------------------------------------------
(***************************************************************************)
(* Properties of find_optimal_window, checked under SpecWindow.            *)
(***************************************************************************)

\* The intensities of the d slots starting at slot i (counted from 0), added up
RECURSIVE SlotSum(_, _)
SlotSum(i, d) == IF d = 0 THEN 0 ELSE forecast[i + d].intensity + SlotSum(i, d - 1)

\* The starting indices of the candidate windows
Candidates == 0..(Len(forecast) - duration_hours)

\* The call returned an OptimalWindow
Returned == window # Pending /\ window.status = "ok"

\* The candidate the returned window is: the one whose first slot starts at
\* start_time
Selected == CHOOSE i \in Candidates : forecast[i + 1].from_time = window.start_time

\* (a / b) truncated toward zero, b > 0
TruncDiv(a, b) == IF a >= 0 THEN a \div b ELSE -((-a) \div b)

\* C1: for every series of non-negative intensities and every duration d with
\* 1 <= d <= len(S), the call returns a window of d consecutive slots whose
\* exact mean (sum / d) is at most the exact mean of every candidate window.
C1_MinimalMean ==
    (window # Pending /\ duration_hours <= Len(forecast)) =>
        /\ window.status = "ok"
        /\ \E i \in Candidates :
              /\ window.start_time = forecast[i + 1].from_time
              /\ window.end_time = forecast[i + duration_hours].to_time
              /\ \A j \in Candidates :
                    SlotSum(i, duration_hours) * duration_hours
                        <= SlotSum(j, duration_hours) * duration_hours

\* C1 witness: a window that is not the first candidate was returned, and
\* some other candidate has a strictly larger mean.
C1_Witness ==
    /\ Returned
    /\ Cardinality(Candidates) >= 3
    /\ Selected > 0
    /\ \E j \in Candidates : SlotSum(j, duration_hours) > SlotSum(Selected, duration_hours)

\* C2: among the candidates that share the minimal mean the call returns the
\* one with the smallest starting index: no candidate before the returned
\* one has a mean as low as the returned one.
C2_EarliestTie ==
    Returned =>
        /\ \E i \in Candidates : window.start_time = forecast[i + 1].from_time
        /\ \A j \in Candidates :
              SlotSum(j, duration_hours) = SlotSum(Selected, duration_hours) => Selected <= j

\* C2 witness: a later candidate ties with the returned window.
C2_Witness ==
    /\ Returned
    /\ \E j \in Candidates :
          /\ j > Selected
          /\ SlotSum(j, duration_hours) = SlotSum(Selected, duration_hours)
    /\ \E j \in Candidates : SlotSum(j, duration_hours) > SlotSum(Selected, duration_hours)

\* C8: whenever len(series) < duration, the empty series included, the call
\* raises ValueError('Forecast period too short for task duration') and
\* returns no window.
C8_TooShortRaises ==
    (window # Pending /\ Len(forecast) < duration_hours) =>
        /\ window.status = "ValueError"
        /\ window.message = "Forecast period too short for task duration"
        /\ DOMAIN window = {"status", "message"}

\* C8 witness: the call on the empty series has raised.
C8_Witness ==
    /\ forecast = <<>>
    /\ window # Pending
    /\ window.status = "ValueError"

\* C9 (as claimed): when len(S) == d there is exactly one candidate and the
\* result has carbon_saved_grams == 0 and percentage_saved == 0.
C9_ZeroSavingsWhenOneCandidate ==
    (Returned /\ Len(forecast) = duration_hours) =>
        /\ Cardinality(Candidates) = 1
        /\ window.carbon_saved_grams = 0
        /\ window.percentage_saved = 0

C11_BaselineIsSlotZero ==
    Returned => window.current_intensity = forecast[1].intensity

\* C11 witness: the returned window does not start at slot 0, and neither its
\* first slot, nor its mean, nor the last slot of the series has the
\* intensity of slot 0.
C11_Witness ==
    /\ Returned
    /\ Selected > 0
    /\ forecast[Selected + 1].intensity # forecast[1].intensity
    /\ forecast[Len(forecast)].intensity # forecast[1].intensity
    /\ window.avg_intensity # forecast[1].intensity
    /\ window.current_intensity = forecast[1].intensity

\* Every slot of the series has the intensity of slot 0
Uniform == \A i \in 1..Len(forecast) : forecast[i].intensity = forecast[1].intensity

\* C12: if every slot of the series has the same intensity k, then for every
\* duration d with 1 <= d <= len(S) the call returns a window with
\* avg_intensity = k and carbon_saved_grams = 0.
C12_UniformSeries ==
    (window # Pending /\ duration_hours <= Len(forecast) /\ Uniform) =>
        /\ window.status = "ok"
        /\ window.avg_intensity = forecast[1].intensity
        /\ window.carbon_saved_grams = 0

\* C12 witness: a uniform series of nonzero intensity with more than one
\* candidate window of more than one slot.
C12_Witness ==
    /\ Returned
    /\ Uniform
    /\ forecast[1].intensity > 0
    /\ duration_hours >= 2
    /\ Len(forecast) > duration_hours
    /\ window.avg_intensity = forecast[1].intensity

\* The exact saving in grams and the exact percentage of the returned window,
\* as fractions: numerator and denominator (the denominator is positive)
SavedNum == (forecast[1].intensity * duration_hours - SlotSum(Selected, duration_hours))
                * energy_kwh[1] * 1000

SavedDen == duration_hours * energy_kwh[2]

PercentNum == (forecast[1].intensity * duration_hours - SlotSum(Selected, duration_hours))
                  * 100

PercentDen == forecast[1].intensity * duration_hours

\* x is the fraction num / den with its fractional part dropped: it has the
\* sign of the fraction and is the integer nearest to it between it and zero
TruncatedTowardZero(x, num, den) ==
    /\ num >= 0 => (x * den <= num /\ num < (x + 1) * den)
    /\ num < 0  => (x * den >= num /\ num > (x - 1) * den)

StrictlyDecreasing ==
    \A i \in 1..(Len(forecast) - 1) : forecast[i + 1].intensity < forecast[i].intensity

\* C18: for every strictly decreasing series and every duration d with
\* 1 <= d <= len(S) the returned window is the last d slots of the series: it
\* starts at the from_time of slot len(S) - d and ends with the last slot.
C18_DecreasingSeriesSelectsLast ==
    (window # Pending /\ duration_hours <= Len(forecast) /\ StrictlyDecreasing) =>
        /\ window.status = "ok"
        /\ window.start_time = forecast[Len(forecast) - duration_hours + 1].from_time
        /\ window.end_time = forecast[Len(forecast)].to_time
        /\ window.avg_intensity = SlotSum(Len(forecast) - duration_hours, duration_hours)
                                      \div duration_hours

\* C18 witness: a strictly decreasing series with three candidate windows of
\* two slots, of which the last was returned.
C18_Witness ==
    /\ Returned
    /\ StrictlyDecreasing
    /\ duration_hours = 2
    /\ Len(forecast) = 4
    /\ Selected = 2

\* The fields of an OptimalWindow
WindowFields == {"status", "start_time", "end_time", "avg_intensity",
                 "carbon_saved_grams", "percentage_saved", "current_intensity"}

\* C23: for every series and every duration d with 1 <= d <= len(S) the call
\* returns one complete OptimalWindow: it does not return None and does not
\* raise 'Could not find optimal window' (or anything else).
C23_AlwaysOneWindow ==
    (window # Pending /\ 1 <= duration_hours /\ duration_hours <= Len(forecast)) =>
        /\ window # None
        /\ window.status # "Exception"
        /\ window.status = "ok"
        /\ DOMAIN window = WindowFields
        /\ \E i \in Candidates : window.start_time = forecast[i + 1].from_time

\* C23 witness: the series has exactly d slots, all of intensity 0, so that
\* the only candidate has the lowest mean there can be, and it was returned.
C23_Witness ==
    /\ Returned
    /\ Len(forecast) = duration_hours
    /\ duration_hours >= 2
    /\ SlotSum(0, duration_hours) = 0
    /\ DOMAIN window = WindowFields

\* C29: the returned window's start_time is the from_time of the first slot
\* of the selected range of d slots, and its end_time is the to_time of the
\* last slot of that same range (index start + d - 1), the range whose mean
\* is reported.
C29_TimesOfSelectedRange ==
    Returned =>
        \E i \in Candidates :
            /\ window.start_time = forecast[i + 1].from_time
            /\ window.end_time = forecast[i + 1 + duration_hours - 1].to_time
            /\ window.avg_intensity = SlotSum(i, duration_hours) \div duration_hours
            /\ \A j \in Candidates : SlotSum(i, duration_hours) <= SlotSum(j, duration_hours)

\* C29 witness: a window of more than one slot that does not start at slot 0
\* and does not end with the last slot of the series was returned.
C29_Witness ==
    /\ Returned
    /\ duration_hours >= 2
    /\ Selected > 0
    /\ Selected + duration_hours < Len(forecast)
    /\ window.end_time = forecast[Selected + duration_hours].to_time
    /\ window.end_time - window.start_time = 60 * duration_hours

\* C33 (as claimed): for every valid call on non-negative intensities (any
\* duration d with 1 <= d <= len(S), any positive energy demand) the reported
\* savings are never negative and never exceed the baseline:
\* carbon_saved_grams >= 0 and 0 <= percentage_saved <= 100.
C33_SavingsWithinBaseline ==
    (Returned /\ duration_hours >= 1 /\ RatPositive(energy_kwh)) =>
        /\ window.carbon_saved_grams >= 0
        /\ window.percentage_saved >= 0
        /\ window.percentage_saved <= 100

-----------------------------------------------------------------------------
(***************************************************************************)
(* The half-hour rounding, checked under SpecRound.                        *)
(***************************************************************************)

\* Seconds since midnight of the day of `clock`
SecondOfDay(t) == (t.hour * 60 + t.minute) * 60 + t.second

\* C7 (as claimed): for every time of day the rounding succeeds and gives a
\* time on a half-hour boundary that is not before the current time and at
\* most 30 minutes after it (datetime.replace keeps the date).
C7_RoundsUpToHalfHour ==
    rounded # Pending =>
        /\ rounded.status = "ok"
        /\ rounded.minute \in {0, 30}
        /\ rounded.second = 0
        /\ SecondOfDay(rounded) >= SecondOfDay(clock)
        /\ SecondOfDay(rounded) <= SecondOfDay(clock) + 30 * 60

-----------------------------------------------------------------------------
(***************************************************************************)
(* Properties of CarbonIntensityService, checked under Spec (sequential    *)
(* calls) and SpecConc (interleaved calls).                                *)
(***************************************************************************)

\* This step is caller p entering the service with call c
CallStep(p, c) ==
    /\ started' = started + 1
    /\ \/ pc'[p] = "rate_limit" /\ req'[p].id = started' /\ req'[p].call = c
       \/ pc'[p] = "idle" /\ ret'[p].id = started' /\ ret'[p].call = c

\* The time to live the claims state: 15 minutes for a forecast, 5 minutes
\* for a current reading, in seconds
ClaimedTTL(c) == IF c.method = "get_forecast" THEN 15 * 60 ELSE 5 * 60

\* C3: a call made while the entry of its key exists and is younger than the
\* time to live (15 minutes for get_forecast, 5 minutes for
\* get_current_intensity) issues no network call and returns the payload
\* in the cache, which an earlier network call for the same key fetched.
C3_FreshEntryServedFromCache ==
    [][\A p \in Callers, c \in Calls :
          (/\ CallStep(p, c)
           /\ CacheKey(c) \in DOMAIN cache
           /\ now - cache[CacheKey(c)].time < ClaimedTTL(c))
          => /\ netCalls' = netCalls
             /\ callLog' = callLog
             /\ cache' = cache
             /\ pc'[p] = "idle"
             /\ ret'[p].status = "ok"
             /\ ret'[p].data = cache[CacheKey(c)].data
             /\ \E i \in 1..Len(callLog) :
                   /\ callLog[i].n = cache[CacheKey(c)].data
                   /\ callLog[i].key = CacheKey(c)]_vars

\* C3 witness: the second of two get_forecast calls was served from an entry
\* one second short of 15 minutes old, and one network call was issued in all.
C3_Witness ==
    \E p \in Callers :
        /\ ret[p].id = 2
        /\ ret[p].call.method = "get_forecast"
        /\ ret[p].source = "cache"
        /\ netCalls = 1
        /\ now - cache[CacheKey(ret[p].call)].time = 15 * 60 - 1

\* C4 (as claimed): a get_forecast call that finds the entry of its key
\* stale issues exactly one network call, and when that call succeeds the
\* entry holds the fresh payload.
C4_StaleEntryRefetchedOnce ==
    \A p \in Callers :
        (ret[p].call.method = "get_forecast" /\ ret[p].entry = "stale") =>
            /\ ret[p].calls = 1
            /\ ret[p].status = "ok" =>
                  /\ ret[p].source = "network"
                  /\ cache[CacheKey(ret[p].call)].data = ret[p].data

\* C5: in a sequential execution two consecutive passes through the rate
\* limiter, and two consecutive network calls, are at least 2 seconds
\* apart, whatever the calls are and however the first one ended.
C5_SequentialPassesSeparated ==
    /\ \A i \in 1..(Len(passLog) - 1) : passLog[i + 1] - passLog[i] >= 2
    /\ \A i \in 1..(Len(callLog) - 1) : callLog[i + 1].time - callLog[i].time >= 2

\* C5 witness: after a first call that failed, the second call slept and
\* passed the limiter exactly 2 seconds after the first, then issued its
\* network call.
C5_Witness ==
    /\ Len(passLog) = 2
    /\ passLog[2] - passLog[1] = 2
    /\ Len(callLog) = 2
    /\ callLog[2].time - callLog[1].time = 2
    /\ \E p \in Callers : ret[p].id = 1 /\ ret[p].status = "Exception"

\* C6 (as claimed): under any interleaving of concurrent calls, any two
\* network calls are at least 2 seconds apart.
C6_ConcurrentCallsSeparated ==
    \A i, j \in 1..Len(callLog) :
        i < j => callLog[j].time - callLog[i].time >= 2

\* C13: when requests.get fails or the provider answers with a non-success
\* status (both a RequestException), get_forecast and get_current_intensity
\* raise the upstream-failure error and return no value: no payload from the
\* cache, from the network or from a default.
C13_UpstreamFailureRaises ==
    \A p \in Callers :
        ret[p].upstream = "RequestException" =>
            /\ ret[p].status = "Exception"
            /\ ret[p].message = FailureMessage(ret[p].call)
            /\ ret[p].source = "none"
            /\ ret[p].data = 0

\* C13 witness: a call that found a stale entry of its key in the cache made
\* its network call, which failed, and the call raised.
C13_Witness ==
    \E p \in Callers :
        /\ ret[p].entry = "stale"
        /\ ret[p].calls = 1
        /\ ret[p].upstream = "RequestException"
        /\ ret[p].status = "Exception"
        /\ CacheKey(ret[p].call) \in DOMAIN cache

\* C14 (as claimed): when the provider answers with a success status but a
\* payload of the wrong shape, get_forecast and get_current_intensity raise
\* the same upstream-failure error as for a network failure.
C14_MalformedPayloadRaisesUpstreamFailure ==
    \A p \in Callers :
        ret[p].upstream = "KeyError" =>
            /\ ret[p].status = "Exception"
            /\ ret[p].message = FailureMessage(ret[p].call)

\* C15 (as claimed): each (query type, parameters) combination has its own
\* cache entry: a payload returned from the cache was fetched by a call of
\* the same method with the same parameters, so that a forecast fetched for
\* one location is never returned from the cache to a get_forecast call for
\* another location.
C15_EntryPerQuery ==
    \A p \in Callers :
        ret[p].source = "cache" =>
            \E i \in 1..Len(callLog) :
                /\ callLog[i].n = ret[p].data
                /\ callLog[i].call = ret[p].call

\* This step issues a requests.get
IssuesNetworkCall == netCalls' # netCalls

\* This step writes the cache
WritesCache == cache' # cache

\* C19: within one call that found no fresh entry the steps are ordered: the
\* network call is issued by a caller that has completed its pass through
\* _rate_limit (and the wait it asked for is over), and the cache is written
\* only by a caller whose network call has been issued, has succeeded and has
\* been parsed; the write stores that payload with the current time under
\* the key of the call and leaves every other entry alone.  The cache is
\* never written before or without a successful fetch.
C19_RateLimitThenFetchThenStore ==
    [][/\ IssuesNetworkCall =>
             \E p \in Callers :
                 /\ req[p].entry \in {"absent", "stale"}
                 /\ req[p].passes = 1
                 /\ req[p].calls = 0
                 /\ now >= req[p].sleep_until
                 /\ req'[p].calls = 1
                 /\ cache' = cache
       /\ WritesCache =>
             \E p \in Callers :
                 /\ req[p].entry \in {"absent", "stale"}
                 /\ req[p].passes = 1
                 /\ req[p].calls = 1
                 /\ callLog[req[p].payload].time <= now
                 /\ callLog[req[p].payload].key = CacheKey(req[p].call)
                 /\ ret'[p].id = req[p].id
                 /\ ret'[p].upstream = "ok"
                 /\ ret'[p].status = "ok"
                 /\ ret'[p].data = req[p].payload
                 /\ DOMAIN cache' = DOMAIN cache \cup {CacheKey(req[p].call)}
                 /\ cache'[CacheKey(req[p].call)] = [data |-> req[p].payload, time |-> now]
                 /\ \A k \in DOMAIN cache :
                       k # CacheKey(req[p].call) => cache'[k] = cache[k]]_vars

\* C19 witness: a call that found a stale entry passed the rate limiter,
\* fetched, and overwrote the entry with the payload it returned.
C19_Witness ==
    \E p \in Callers :
        /\ ret[p].entry = "stale"
        /\ ret[p].calls = 1
        /\ ret[p].source = "network"
        /\ Len(passLog) = 2
        /\ Len(callLog) = 2
        /\ callLog[2].time >= passLog[2]
        /\ cache[CacheKey(ret[p].call)] = [data |-> ret[p].data, time |-> now]

\* Caller q is inside a call that found no fresh entry of the key of c and
\* has not finished: it is on its way to, or waiting for, its network call
InFlightFor(q, c) ==
    /\ pc[q] \in {"rate_limit", "sleep", "stamp", "request", "response"}
    /\ CacheKey(req[q].call) = CacheKey(c)

\* C20: single-flight de-duplication is not provided: while one caller is in
\* flight for a key and the cache holds no fresh entry of it, another caller
\* that asks for the same key is not held back and is not handed the first
\* caller's fetch: it can enter at once and goes on to the rate limiter and
\* its own network call.
C20_NoSingleFlight ==
    \A p, q \in Callers, c \in BurstCalls :
        (/\ p # q
         /\ pc[p] = "idle"
         /\ started < MaxRequests
         /\ InFlightFor(q, c)
         /\ ~(/\ CacheKey(c) \in DOMAIN cache
              /\ now - cache[CacheKey(c)].time < ClaimedTTL(c)))
        => ENABLED (Call(p, c) /\ pc'[p] = "rate_limit")

\* C20 witness: two callers asked for the same key, both found no entry, and
\* both have issued their own network call, neither of which has returned.
C20_Witness ==
    \E p, q \in Callers :
        /\ p # q
        /\ pc[p] = "response"
        /\ pc[q] = "response"
        /\ CacheKey(req[p].call) = CacheKey(req[q].call)
        /\ req[p].entry = "absent"
        /\ req[q].entry = "absent"
        /\ req[p].calls = 1
        /\ req[q].calls = 1
        /\ netCalls = 2
        /\ callLog[1].key = callLog[2].key

\* C21: one invocation of get_forecast or get_current_intensity issues at
\* most one network call: no call in progress and no finished call has
\* issued more than one, the network calls issued never outnumber the
\* invocations, and a call whose network call failed or timed out has
\* raised after that one network call.
C21_AtMostOneNetworkCall ==
    /\ \A p \in Callers : req[p].calls <= 1 /\ req[p].passes <= 1 /\ ret[p].calls <= 1
    /\ netCalls <= started
    /\ \A p \in Callers :
          ret[p].upstream = "RequestException" =>
              /\ ret[p].calls = 1
              /\ ret[p].status = "Exception"

\* C21 witness: a call's network call failed, the call raised, and one
\* network call was issued in all.
C21_Witness ==
    /\ AllIdle
    /\ started = 1
    /\ netCalls = 1
    /\ \E p \in Callers :
          /\ ret[p].upstream = "RequestException"
          /\ ret[p].status = "Exception"
          /\ ret[p].calls = 1

\* C22: no operation of the service removes a cache entry: in every step the
\* set of cached keys stays or grows, and an entry, expired or not, is left
\* as it is unless the step is the successful end of a fetch for its key.
C22_EntriesNeverRemoved ==
    [][/\ DOMAIN cache \subseteq DOMAIN cache'
       /\ \A k \in DOMAIN cache :
             cache'[k] # cache[k] =>
                 \E p \in Callers :
                     /\ pc[p] = "response"
                     /\ CacheKey(req[p].call) = k
                     /\ ret'[p].upstream = "ok"
                     /\ cache'[k].data = ret'[p].data]_vars

\* C22 witness: an expired entry is still in the map after a call that found
\* it expired and failed to replace it.
C22_Witness ==
    \E p \in Callers :
        /\ ret[p].entry = "stale"
        /\ ret[p].status # "ok"
        /\ CacheKey(ret[p].call) \in DOMAIN cache
        /\ now - cache[CacheKey(ret[p].call)].time >= ClaimedTTL(ret[p].call)
        /\ pc[p] = "idle"

\* C27 (as claimed): under any interleaving of concurrent successful fetches
\* for one key, the payload stored under the key is that of the most
\* recently issued network call for it: no finished successful fetch has a
\* newer payload than the entry of its key (payloads are numbered in the
\* order the network calls were issued).
C27_CacheHoldsNewestFetch ==
    \A p \in Callers :
        (ret[p].status = "ok" /\ ret[p].source = "network") =>
            cache[CacheKey(ret[p].call)].data >= ret[p].data

\* Every call that has entered the service comes to its end
EventuallyReturns == \A p \in Callers : (pc[p] # "idle") ~> (pc[p] = "idle")

\* C28 (as claimed), the part that is a property of states: a call in the
\* rate-limit wait has at most 2 seconds left to wait, the first call ever
\* (last-call timestamp 0) does not wait, and every call that went through
\* the rate limiter and has ended issued its network call before it
\* returned or raised.
C28_WaitsThenIssuesNetworkCall ==
    \A p \in Callers :
        /\ pc[p] = "sleep" =>
              /\ req[p].sleep_until - now <= 2
              /\ last_request_time # 0
        /\ ret[p].entry \in {"absent", "stale"} => ret[p].calls = 1

\* The fetch of the finished call r failed: requests.get or raise_for_status
\* raised, or the payload could not be parsed
FetchFailure(r) == r.upstream \in {"RequestException", "KeyError"}

\* C31: when the fetch in get_forecast or get_current_intensity fails, the
\* cache map after the call is the cache map the call found: no entry was
\* added, and a stale entry of the key keeps its payload and its timestamp.
\* The map also stays as the call found it while the call is in progress.
C31_FailedFetchLeavesCache ==
    \A p \in Callers :
        /\ pc[p] # "idle" => cache = req[p].cache_before
        /\ FetchFailure(ret[p]) =>
              /\ ret[p].status # "ok"
              /\ cache = ret[p].cache_before
              /\ DOMAIN cache = DOMAIN ret[p].cache_before
              /\ \A k \in DOMAIN cache :
                    /\ cache[k].data = ret[p].cache_before[k].data
                    /\ cache[k].time = ret[p].cache_before[k].time

\* C31 witness: a call found a stale entry of its key, its fetch failed, and
\* the entry is there with the payload and timestamp of the earlier fetch;
\* the failed call's network call is the second one issued.
C31_Witness ==
    \E p \in Callers :
        /\ pc[p] = "idle"
        /\ ret[p].upstream = "RequestException"
        /\ ret[p].entry = "stale"
        /\ ret[p].calls = 1
        /\ netCalls = 2
        /\ CacheKey(ret[p].call) \in DOMAIN cache
        /\ cache[CacheKey(ret[p].call)].data = 1
        /\ cache[CacheKey(ret[p].call)].time = callLog[1].time

\* C32: a cache hit changes no shared state: a call served from a fresh
\* entry returns in the step it was made in, without a pass through the rate
\* limiter and without a network call; the last-call timestamp and every
\* cache entry (payload and fetch time) are what they were, so the entry
\* expires when it would have expired without the hit.
C32_HitChangesNoSharedState ==
    [][\A p \in Callers, c \in Calls :
          (CallStep(p, c) /\ CacheHit(c)) =>
              /\ pc'[p] = "idle"
              /\ ret'[p].source = "cache"
              /\ ret'[p].calls = 0
              /\ cache' = cache
              /\ last_request_time' = last_request_time
              /\ passLog' = passLog
              /\ netCalls' = netCalls
              /\ callLog' = callLog
              /\ now' = now]_vars

\* C32 witness: the second call was served from the cache some time after
\* the one fetch; the entry holds the time of that fetch and the last-call
\* timestamp is that of the one pass through the rate limiter.
C32_Witness ==
    \E p \in Callers :
        /\ pc[p] = "idle"
        /\ ret[p].source = "cache"
        /\ ret[p].entry = "fresh"
        /\ ret[p].id = 2
        /\ netCalls = 1
        /\ Len(passLog) = 1
        /\ last_request_time = passLog[1]
        /\ cache[CacheKey(ret[p].call)].data = ret[p].data
        /\ cache[CacheKey(ret[p].call)].time < now
        /\ cache = ret[p].cache_before

-----------------------------------------------------------------------------
(***************************************************************************)
(* Properties of the routes, checked under SpecRoute.                      *)
(***************************************************************************)

\* This step leaves the service as it is: no call of it is started, no
\* network call is issued, and the cache and the rate limiter's timestamp
\* keep their values
ServiceUntouched ==
    /\ started' = started
    /\ netCalls' = netCalls
    /\ callLog' = callLog
    /\ cache' = cache
    /\ last_request_time' = last_request_time
    /\ pc' = pc
    /\ req' = req
    /\ ret' = ret

\* C24: a forecast request whose hours parameter is outside 1..96 is
\* answered with a validation error (422) before the core is called:
\* get_forecast is not invoked, no network call is made, and the cache and
\* the rate-limit timestamp do not change.
C24_InvalidHoursRejected ==
    [][(/\ http' # http
        /\ http.state # "waiting"
        /\ http'.route = "forecast"
        /\ (http'.hours < 1 \/ http'.hours > 96))
       => /\ http'.state = "done"
          /\ http'.status_code = 422
          /\ http'.core_calls = 0
          /\ ServiceUntouched]_vars

\* C24 witness: after a request that fetched and cached a forecast, a
\* request with hours = 97 was answered 422.
C24_Witness ==
    /\ http.state = "done"
    /\ http.route = "forecast"
    /\ http.hours = 97
    /\ http.status_code = 422
    /\ netCalls = 1
    /\ DOMAIN cache # {}

\* C25: an optimal-time request with a task type that is not in the preset
\* table is answered 400 before any forecast fetch (no call of get_forecast,
\* no network call), and the 400 is not turned into a 500; every failure
\* raised by get_forecast or by find_optimal_window is answered 500.
C25_UnknownTask400FailuresAre500 ==
    [][/\ (/\ http' # http
           /\ http.state # "waiting"
           /\ http'.route = "optimal-time"
           /\ http'.task_type \notin DOMAIN TASK_PRESETS)
          => /\ http'.state = "done"
             /\ http'.status_code = 400
             /\ http'.core_calls = 0
             /\ ServiceUntouched
       /\ (/\ http.state = "waiting"
           /\ http.route = "optimal-time"
           /\ http'.state = "done")
          => /\ ret[1].status # "ok" => http'.status_code = 500
             /\ (/\ ret[1].status = "ok"
                 /\ find_optimal_window_py(lists'[ret[1].data],
                                           TASK_PRESETS[http.task_type].duration_hours,
                                           TASK_PRESETS[http.task_type].energy_kwh).status
                        # "ok")
                => http'.status_code = 500
             /\ http'.status_code \in {200, 500}]_vars

\* C25 witness: after an optimal-time request that fetched a forecast, a
\* request with an unknown task type was answered 400.
C25_Witness ==
    /\ http.state = "done"
    /\ http.route = "optimal-time"
    /\ http.task_type = "invalid-task"
    /\ http.status_code = 400
    /\ netCalls = 1
    /\ started = 1

\* C26 (as claimed): for every preset, an optimal-time request whose forecast
\* fetch succeeds with at least as many slots as the preset's duration is
\* answered 200 with a window.
C26_EveryPresetGetsAWindow ==
    (/\ http.state = "done"
     /\ http.route = "optimal-time"
     /\ http.task_type \in DOMAIN TASK_PRESETS
     /\ ret[1].id = http.id
     /\ ret[1].status = "ok"
     /\ ~RatLess(Rat(Len(lists[ret[1].data]), 1),
                 TASK_PRESETS[http.task_type].duration_hours.val))
    => /\ http.status_code = 200
       /\ http.body.kind = "window"

\* The IntensitySlot invariant of a series: every slot starts before it ends,
\* and each slot starts where the one before it ends (so the slots are in
\* ascending order, contiguous and non-overlapping)
SeriesInvariant(f) ==
    /\ \A i \in 1..Len(f) : f[i].from_time < f[i].to_time
    /\ \A i \in 1..(Len(f) - 1) : f[i].to_time = f[i + 1].from_time

\* C30 (as claimed): every series get_forecast returns, freshly fetched or
\* from the cache, satisfies the IntensitySlot invariant, whatever list of
\* well-formed slot records the provider returned.
C30_ReturnedSeriesOrdered ==
    /\ \A n \in DOMAIN lists : SeriesInvariant(lists[n])
    /\ (http.state = "done" /\ http.body.kind = "forecast") =>
           SeriesInvariant(http.body.forecast)

\* C34 (as claimed): for a forecast as the provider delivers it through
\* get_forecast (half-hour slots in order), the window an optimal-time
\* request is answered with spans the preset's duration_hours on the clock:
\* end_time - start_time is duration_hours hours (times are in minutes).
C34_WindowSpansDurationHours ==
    (/\ http.state = "done"
     /\ http.route = "optimal-time"
     /\ http.status_code = 200
     /\ http.body.kind = "window"
     /\ ret[1].id = http.id
     /\ SeriesInvariant(lists[ret[1].data]))
    => LET w == http.body.optimal_window
           d == TASK_PRESETS[http.task_type].duration_hours.val
       IN  (w.end_time - w.start_time) * d[2] = 60 * d[1]

=============================================================================
